---- MODULE Spec2Model ----
(***************************************************************************)
(* Model of live-wspsr-tui: the track registry, the per-track task map,    *)
(* the options callback and the transcription pipeline (process_queue) of  *)
(* src/src/wspsr/screens/selection.py, with the application defaults of    *)
(* src/src/wspsr/main.py.                                                  *)
(*                                                                         *)
(* Python dictionaries are functions whose DOMAIN is the set of keys that  *)
(* are present; lists are sequences; a path is the sequence of its         *)
(* components.  A handler that runs on the event loop is one action;       *)
(* process_queue is a coroutine, so one action resumes it and runs it up   *)
(* to its next await (or to its end).                                      *)
(*                                                                         *)
(* The discovery side (src/src/wspsr/monitor.py and populate_filelist) is  *)
(* modelled by two further specifications over the same variables:         *)
(* WatcherSpec, the directory handler and the file system it snapshots,    *)
(* and DiscoverySpec, the inspection worker, the monitor_directory         *)
(* generator and its consumer.  They meet only in peek_queue.              *)
(***************************************************************************)
EXTENDS Naturals, Sequences, FiniteSets, TLC

VARIABLES
    audio_tracks,   \* app.audio_tracks: track key -> registered entry
    rows,           \* the DataTable's rows, in insertion order (ordered_rows)
    cells,          \* the "status" cell displayed for each row
    tasks,          \* app.tasks: track key -> stored task dictionary
    defaults,       \* app.defaults
    start_display,  \* the Start button's display flag
    pc,             \* where the process_queue worker stands
    ordered_rows,   \* the row list process_queue iterates over
    idx,            \* position in ordered_rows of the row being processed
    task,           \* process_queue's local `task` (resolved at line 365)
    exited,         \* the application has ended on a worker's exception
    log,            \* per key: the set_row_status and run_proc calls made for it
    seen,           \* per key: the status process_queue read when it visited the row
    fs,             \* the files under the watched directory: path -> inode, 0 when absent
    previous_snapshot, \* MountsDirectoryHandler.previous_snapshot: path -> inode
    pending,        \* a file system event waits for on_any_event
    put_count,      \* per inode: how often queue_new_files has enqueued the file
    peek_queue,     \* the watcher -> worker queue of paths (None is the sentinel)
    tui_queue,      \* the worker -> consumer queue of observations
    peek_process,   \* the inspection worker process
    mount_observer, \* the watchdog observer thread
    is_cancelled,   \* worker.is_cancelled of populate_filelist
    gen,            \* where the monitor_directory generator stands
    file_entry,     \* the observation the generator has yielded to populate_filelist
    teardown,       \* the steps the generator's finally block has performed, in order
    peek_log,       \* per inspected path: what peek_worker did with it
    handled,        \* what populate_filelist did with the last observation it received
    polls           \* tui_queue.get calls made since the loop's condition became false

uvars == <<audio_tracks, rows, cells, tasks, defaults, start_display, pc,
           ordered_rows, idx, task, exited, log, seen>>

wvars == <<fs, previous_snapshot, pending, put_count>>

dvars == <<tui_queue, peek_process, mount_observer, is_cancelled, gen,
           file_entry, teardown, peek_log, handled, polls>>

vars == <<uvars, wvars, peek_queue, dvars>>

----------------------------------------------------------------------------
(* Bounds of the model. *)

MaxTracks == 2

MaxExitCode == 1

MaxInodes == 3

MaxQueued == 2

TrackKeys == 1..MaxTracks

ExitCodes == 0..MaxExitCode

----------------------------------------------------------------------------
(* Values. *)

TranscriptionStatus ==
    {"SKIPPED", "WAITING", "UNPACKING", "LOADING", "TRANSCRIBING",
     "DIARIZING", "ENCRYPTING", "RETURNING", "FAILED", "COMPLETED"}

EmptyDict == [f \in {} |-> 0]

AppDefaults == [models |-> <<"large-v2", "diarize">>]

\* What OptionsScreen can have collected in self.options: a models list only
\* once the selection was changed (here emptied, or left with the diarization
\* entry), the input fields only when they validate.
OptionValues ==
    { [models |-> <<>>],
      [prompt |-> "hello"],
      [models |-> <<"large-v2", "diarize">>, min_speakers |-> "2"] }

\* The entries the discovery side registers: a plain media file, an archive
\* member, and an archive member that could not be read without a passphrase.
PlainEntry == [path |-> <<"media", "a.mp3">>]

ArchiveEntry == [path |-> <<"media", "b.zip">>, archive_path |-> <<"clip.wav">>]

EncryptedEntry ==
    [path |-> <<"media", "b.zip">>, archive_path |-> <<"clip.wav">>,
     encrypted |-> TRUE]

Entries == {PlainEntry, ArchiveEntry, EncryptedEntry}

\* A row key as the handlers receive it: a DataTable RowKey object, the plain
\* string it wraps, or no key at all.
RowKey(k) == [type |-> "RowKey", value |-> k]

StrKey(k) == [type |-> "str", value |-> k]

NoKey == [type |-> "None", value |-> 0]

\* str(status.name).capitalize()
Capitalize(name) ==
    CASE name = "SKIPPED" -> "Skipped"
      [] name = "WAITING" -> "Waiting"
      [] name = "UNPACKING" -> "Unpacking"
      [] name = "LOADING" -> "Loading"
      [] name = "TRANSCRIBING" -> "Transcribing"
      [] name = "DIARIZING" -> "Diarizing"
      [] name = "ENCRYPTING" -> "Encrypting"
      [] name = "RETURNING" -> "Returning"
      [] name = "FAILED" -> "Failed"
      [] name = "COMPLETED" -> "Completed"

\* dict.get(key, {})
DictGet(d, k) == IF k \in DOMAIN d THEN d[k] ELSE EmptyDict

\* a.copy() followed by update(b)
DictUpdate(a, b) ==
    [f \in DOMAIN a \cup DOMAIN b |-> IF f \in DOMAIN b THEN b[f] ELSE a[f]]

\* d[k] = v
DictSet(d, k, v) ==
    [f \in DOMAIN d \cup {k} |-> IF f = k THEN v ELSE d[f]]

\* x in list
InList(x, l) == \E i \in 1..Len(l) : l[i] = x

----------------------------------------------------------------------------
(* The state the handlers read and write, threaded through the operators   *)
(* below as one record: an operator returns the state it leaves behind,    *)
(* and a query returns [val |-> its result, s |-> the state it leaves].    *)
(* `raised` is set once an exception propagates out of a call.             *)

Current ==
    [audio_tracks |-> audio_tracks, rows |-> rows, cells |-> cells,
     tasks |-> tasks, defaults |-> defaults, pc |-> pc,
     ordered_rows |-> ordered_rows, idx |-> idx, task |-> task,
     log |-> log, seen |-> seen, raised |-> FALSE]

Install(s) ==
    /\ audio_tracks' = s.audio_tracks
    /\ rows' = s.rows
    /\ cells' = s.cells
    /\ tasks' = s.tasks
    /\ defaults' = s.defaults
    /\ pc' = s.pc
    /\ ordered_rows' = s.ordered_rows
    /\ idx' = s.idx
    /\ task' = s.task
    /\ log' = s.log
    /\ seen' = s.seen
    /\ exited' = (exited \/ s.raised)

----------------------------------------------------------------------------
(* SelectionScreen: the task queries and update_rows. *)

\* get_row_task without the copy: the update lands in app.defaults itself.
GetRowTaskNoCopy(s, row_key) ==
    LET merged == DictUpdate(s.defaults, DictGet(s.tasks, row_key.value))
    IN  [val |-> merged, s |-> [s EXCEPT !.defaults = merged]]

\* get_row_task: the defaults, copied, updated with the track's stored task.
GetRowTask(s, row_key) ==
    [val |-> DictUpdate(s.defaults, DictGet(s.tasks, row_key.value)), s |-> s]

\* get_row_status: the resolved task's status, WAITING when it has none.
GetRowStatus(s, row_key) ==
    LET q == GetRowTask(s, row_key)
    IN  [val |-> IF "status" \in DOMAIN q.val THEN q.val.status ELSE "WAITING",
         s |-> q.s]

\* update_rows without the SKIPPED substitution.
RowStatusNoSkip(s, row_key) == GetRowStatus(s, StrKey(row_key.value))

\* The status update_rows computes for one row (the body of its loop, up to
\* the cell update): SKIPPED stands in for WAITING when the resolved task has
\* a models list and the list is empty.
RowStatus(s, row_key) ==
    LET q1 == GetRowTask(s, StrKey(row_key.value))
        q2 == GetRowStatus(q1.s, StrKey(row_key.value))
    IN  [val |-> IF /\ "models" \in DOMAIN q1.val
                    /\ q1.val.models = <<>>
                    /\ q2.val = "WAITING"
                 THEN "SKIPPED"
                 ELSE q2.val,
         s |-> q2.s]

RECURSIVE UpdateRowsLoop(_, _)
\* update_rows' loop over RowKey objects: compute the status, write the cell.
UpdateRowsLoop(s, keys) ==
    IF keys = <<>> THEN s
    ELSE LET q == RowStatus(s, RowKey(Head(keys)))
         IN  UpdateRowsLoop(
                 [q.s EXCEPT !.cells = DictSet(@, Head(keys), Capitalize(q.val))],
                 Tail(keys))

\* update_rows(row_keys): no key means every row of the table; an object
\* without __iter__ (a RowKey) is wrapped in a tuple; a str has __iter__, so
\* the loop runs over its characters and the first `row_key.value` raises
\* AttributeError (a track key is never the empty string).
UpdateRows(s, row_keys) ==
    CASE row_keys.type = "None" -> UpdateRowsLoop(s, s.rows)
      [] row_keys.type = "RowKey" -> UpdateRowsLoop(s, <<row_keys.value>>)
      [] row_keys.type = "str" -> [s EXCEPT !.raised = TRUE]

\* The record of one call in a track's log.
StatusCall(status) == [op |-> "set_row_status", arg |-> status, args |-> <<>>]

ProcCall(program, args) == [op |-> "run_proc", arg |-> program, args |-> args]

\* set_row_status: the key is reduced to its string, the status is stored in
\* the task (created when absent), and update_rows is called with the string.
SetRowStatus(s, row_key, status) ==
    LET key == row_key.value
        stored == DictSet(DictGet(s.tasks, key), "status", status)
    IN  UpdateRows([s EXCEPT !.tasks = DictSet(@, key, stored),
                             !.log[key] = Append(@, StatusCall(status))],
                   StrKey(key))

\* OptionsScreen.on_button_pressed: the (options, target) pair it dismisses with.
OptionsResult(name, button, options) ==
    [options |-> IF button = "reset" THEN EmptyDict ELSE options,
     target |-> IF button = "set_defaults" THEN NoKey ELSE StrKey(name)]

\* check_options, the callback of on_data_table_row_selected.
CheckOptions(s, row_key, result) ==
    IF result.target.type = "None"
    THEN UpdateRows([s EXCEPT !.defaults = result.options], NoKey)
    ELSE UpdateRows([s EXCEPT !.tasks = DictSet(@, row_key.value, result.options)],
                    row_key)

\* on_track_added: the entry is stored, then a row is added showing "Waiting";
\* DataTable.add_row raises DuplicateKey for a key that already has a row.
OnTrackAdded(s, key, entry) ==
    LET s1 == [s EXCEPT !.audio_tracks = DictSet(@, key, entry)]
    IN  IF InList(key, s.rows)
        THEN [s1 EXCEPT !.raised = TRUE]
        ELSE [s1 EXCEPT !.rows = Append(@, key),
                        !.cells = DictSet(@, key, "Waiting")]

----------------------------------------------------------------------------
(* process_queue.  The worker runs on the event loop: between two awaits   *)
(* nothing else runs.  pc names the await it is suspended at.              *)

RECURSIVE Loop(_, _)

RECURSIVE RowBody(_, _)

\* The exception caught inside the loop: the worker goes on with the next row.
CrashSwallowed(s) == Loop([s EXCEPT !.raised = FALSE], s.idx + 1)

\* An exception leaves process_queue: the worker ends in error.
Crash(s) == [s EXCEPT !.pc = "crashed", !.raised = TRUE]

\* A row whose processing raised is tried once more.
ContinueRetry(s, i) ==
    IF s.raised /\ Len(s.log[s.ordered_rows[i]]) < 2
    THEN RowBody([s EXCEPT !.raised = FALSE], i)
    ELSE IF s.raised THEN Crash(s) ELSE Loop(s, i + 1)

\* `continue`, or the end of the loop body: on to the next row.
Continue(s, i) == IF s.raised THEN Crash(s) ELSE Loop(s, i + 1)

\* await run_proc(...): the call is made and the worker is suspended until
\* the command has ended.
RunProc(s, key, program, args, label) ==
    IF s.raised THEN Crash(s)
    ELSE [s EXCEPT !.log[key] = Append(@, ProcCall(program, args)), !.pc = label]

\* path.basename(p) + suffix
BasenamePlus(p, suffix) == <<p[Len(p)] \o suffix>>

\* Lines 402-413: LOADING, then the transcode command on the extracted path
\* when the track has one, else on the track's path.
Loading(s, i) ==
    LET key == s.ordered_rows[i]
        s1 == SetRowStatus(s, RowKey(key), "LOADING")
        track == s1.audio_tracks[key]
        source_path == IF "extracted_path" \in DOMAIN track
                       THEN track.extracted_path ELSE track.path
        audio_file == BasenamePlus(source_path, ".oga")
    IN  RunProc(s1, key, "ffmpeg", <<source_path, audio_file>>, "transcode")

\* The archive test dropped: every track goes straight to LOADING.
UnpackingSkipped(s, i) == Loading(s, i)

\* Lines 383-400: for an archive member UNPACKING and the extraction command;
\* otherwise straight to LOADING.
Unpacking(s, i) ==
    LET key == s.ordered_rows[i]
        track == s.audio_tracks[key]
    IN  IF "archive_path" \in DOMAIN track
        THEN RunProc(SetRowStatus(s, RowKey(key), "UNPACKING"), key,
                     "bsdtar", <<track.path, track.archive_path>>, "unpack")
        ELSE Loading(s, i)

\* Lines 394-400, after the extraction command has ended with `ret`.
AfterUnpack(s, i, ret) ==
    LET key == s.ordered_rows[i]
        track == s.audio_tracks[key]
    IN  IF ret # 0
        THEN Continue(SetRowStatus(s, RowKey(key), "FAILED"), i)
        ELSE Loading(
                 [s EXCEPT !.audio_tracks[key] =
                      DictSet(track, "extracted_path",
                              track.path \o track.archive_path)],
                 i)

\* Lines 421-443: the transcription command's arguments; task["models"] raises
\* KeyError when the resolved task has no models.
WhisperArgs(t, audio_file) ==
    <<<<"whisperx">>>>
    \o (IF InList("diarize", t.models)
        THEN <<<<"--diarize">>>>
             \o (IF "min_speakers" \in DOMAIN t
                 THEN <<<<"--min_speakers", t.min_speakers>>>> ELSE <<>>)
             \o (IF "max_speakers" \in DOMAIN t
                 THEN <<<<"--max_speakers", t.max_speakers>>>> ELSE <<>>)
        ELSE <<>>)
    \o (IF "prompt" \in DOMAIN t
        THEN <<<<"--initial_prompt", t.prompt>>>> ELSE <<>>)
    \o <<audio_file>>

\* Lines 415-447, after the transcode command has ended with `ret`.
AfterTranscode(s, i, ret) ==
    LET key == s.ordered_rows[i]
        track == s.audio_tracks[key]
        source_path == IF "extracted_path" \in DOMAIN track
                       THEN track.extracted_path ELSE track.path
        s1 == SetRowStatus(s, RowKey(key), "TRANSCRIBING")
    IN  IF ret # 0
        THEN Continue(SetRowStatus(s, RowKey(key), "FAILED"), i)
        ELSE IF s1.raised \/ "models" \notin DOMAIN s1.task
        THEN Crash(s1)
        ELSE RunProc(s1, key, "whisperx",
                     WhisperArgs(s1.task, BasenamePlus(source_path, ".oga")),
                     "transcribe")

\* Lines 449-467, after the transcription command has ended with `ret`: the
\* failure branch is guarded by `and False`, so every exit code goes on to
\* RETURNING and the copy of the results.
AfterTranscribe(s, i, ret) ==
    LET key == s.ordered_rows[i]
        s1 == SetRowStatus(s, RowKey(key), "RETURNING")
    IN  IF ret # 0 /\ FALSE
        THEN Continue(SetRowStatus(s, RowKey(key), "FAILED"), i)
        ELSE IF s1.raised THEN Crash(s1) ELSE [s1 EXCEPT !.pc = "copy"]

\* Line 469, after copytree has ended.
AfterCopy(s, i) ==
    Continue(SetRowStatus(s, RowKey(s.ordered_rows[i]), "COMPLETED"), i)

\* The body of the loop without the test for an encrypted track.
RowBodyNoEncryptedCheck(s, i) ==
    LET q == GetRowTask(s, StrKey(s.ordered_rows[i]))
    IN  Unpacking([q.s EXCEPT !.task = q.val], i)

\* Lines 364-369: the track and the resolved task are read; an encrypted
\* track fails at once.
RowBody(s, i) ==
    LET key == s.ordered_rows[i]
        track == s.audio_tracks[key]
        q == GetRowTask(s, StrKey(key))
        s1 == [q.s EXCEPT !.task = q.val]
    IN  IF "encrypted" \in DOMAIN track /\ track.encrypted
        THEN Continue(SetRowStatus(s1, RowKey(key), "FAILED"), i)
        ELSE Unpacking(s1, i)

\* Lines 358-362: the loop over the rows, from row i on; a row whose status
\* is not WAITING is passed over.
Loop(s, i) ==
    IF i > Len(s.ordered_rows)
    THEN [s EXCEPT !.pc = "done", !.idx = i]
    ELSE LET key == s.ordered_rows[i]
             q == GetRowStatus(s, RowKey(key))
             s1 == [q.s EXCEPT !.seen[key] = q.val, !.idx = i]
         IN  IF q.val # "WAITING" THEN Continue(s1, i) ELSE RowBody(s1, i)

\* The worker resumed: from its start, or from the await it stands at.
Resume(s, ret) ==
    CASE s.pc = "begin" -> Loop([s EXCEPT !.ordered_rows = s.rows], 1)
      [] s.pc = "unpack" -> AfterUnpack(s, s.idx, ret)
      [] s.pc = "transcode" -> AfterTranscode(s, s.idx, ret)
      [] s.pc = "transcribe" -> AfterTranscribe(s, s.idx, ret)
      [] s.pc = "copy" -> AfterCopy(s, s.idx)

Suspended == {"begin", "unpack", "transcode", "transcribe", "copy"}

----------------------------------------------------------------------------
(* Discovery, the watcher side: MountsDirectoryHandler and the watchdog    *)
(* snapshots it diffs (monitor.py:66-83).  A file is an inode; fs maps the *)
(* paths of the model's directory tree to the inode found there, 0 when    *)
(* there is none.  put_count has one entry per inode ever allocated.       *)

WatchedDir == "/media"

SubDir == "/media/sub"

\* The file paths of the tree, two directly in the watched directory and one
\* in a subdirectory of it.
FilePaths == {"/media/a.mp3", "/media/b.zip", "/media/sub/c.wav"}

\* os.path.dirname
Parent(p) ==
    CASE p = "/media/a.mp3" -> WatchedDir
      [] p = "/media/b.zip" -> WatchedDir
      [] p = "/media/sub/c.wav" -> SubDir
      [] p = SubDir -> WatchedDir
      [] OTHER -> "/"

\* The file paths a walk of `dir` finds in the file system f:
\* the files of dir, and with recursive also those of its subdirectories.
Walk(f, dir, recursive) ==
    {p \in FilePaths :
        /\ f[p] # 0
        /\ \/ Parent(p) = dir
           \/ recursive /\ Parent(Parent(p)) = dir}

\* watchdog's DirectorySnapshot(path, recursive): path -> inode.
DirectorySnapshot(f, path, recursive) ==
    [p \in Walk(f, path, recursive) |-> f[p]]

\* watchdog's EmptyDirectorySnapshot.
EmptyDirectorySnapshot == [p \in {} |-> 0]

\* DirectorySnapshotDiff(ref, snapshot).files_created, as watchdog computes
\* it: the paths new in snapshot, plus the paths whose inode changed, minus
\* those whose inode ref knows under some path (these are reported as moved).
FilesCreated(ref, snapshot) ==
    LET created == DOMAIN snapshot \ DOMAIN ref
        replaced == {p \in DOMAIN ref \cap DOMAIN snapshot : ref[p] # snapshot[p]}
    IN  {p \in created \cup replaced :
            ~ \E q \in DOMAIN ref : ref[q] = snapshot[p]}

\* The orders in which a `for` loop can visit the members of a set.
Orderings(S) ==
    {o \in [1..Cardinality(S) -> S] : \A i, j \in DOMAIN o : o[i] = o[j] => i = j}

\* Every order of every set of files.
PathOrders == UNION {Orderings(S) : S \in SUBSET FilePaths}

RECURSIVE CountPuts(_, _, _)
\* put_count after the paths of `order` were enqueued out of `snapshot`.
CountPuts(counts, snapshot, order) ==
    IF order = <<>> THEN counts
    ELSE CountPuts([counts EXCEPT ![snapshot[Head(order)]] = @ + 1],
                   snapshot, Tail(order))

\* queue_new_files with the previous snapshot never replaced.
QueueNewFilesKeepSnapshot(order) ==
    LET snapshot == DirectorySnapshot(fs, WatchedDir, TRUE)
    IN  /\ order \in Orderings(FilesCreated(previous_snapshot, snapshot))
        /\ previous_snapshot' = previous_snapshot
        /\ peek_queue' = peek_queue \o order
        /\ put_count' = CountPuts(put_count, snapshot, order)

\* queue_new_files: snapshot the directory (DirectorySnapshot's recursive
\* parameter is left at its default, True), diff against the previous
\* snapshot, replace it, and put every created file on the queue.
QueueNewFiles(order) ==
    LET snapshot == DirectorySnapshot(fs, WatchedDir, TRUE)
    IN  /\ order \in Orderings(FilesCreated(previous_snapshot, snapshot))
        /\ previous_snapshot' = snapshot
        /\ peek_queue' = peek_queue \o order
        /\ put_count' = CountPuts(put_count, snapshot, order)

----------------------------------------------------------------------------
(* Discovery, the worker side: peek_worker (monitor.py:16-63).  What the   *)
(* libraries report for a path is a table over the model's media: a MIME   *)
(* type is the pair of its two halves, so that startswith('audio/') is a   *)
(* test of the first.                                                      *)

\* The paths the watcher can hand to the worker.
MediaPaths ==
    {"/media/a.mp3", "/media/c.ogg", "/media/m.mkv", "/media/v.mp4",
     "/media/notes.txt", "/media/b.zip", "/media/e.zip", "/media/f.zip"}

\* The sentinel monitor_directory puts on peek_queue.
None == "None"

\* magic.from_file(filename, mime=True)
MagicMime(filename) ==
    CASE filename = "/media/a.mp3" -> <<"audio", "mpeg">>
      [] filename = "/media/c.ogg" -> <<"audio", "ogg">>
      [] filename = "/media/m.mkv" -> <<"video", "x-matroska">>
      [] filename = "/media/v.mp4" -> <<"video", "mp4">>
      [] filename = "/media/notes.txt" -> <<"text", "plain">>
      [] OTHER -> <<"application", "zip">>

\* magic.from_file(filename)
MagicFormat(filename) ==
    CASE filename = "/media/a.mp3" -> "MPEG ADTS, layer III"
      [] filename = "/media/c.ogg" -> "Ogg data, Vorbis audio"
      [] filename = "/media/m.mkv" -> "Matroska data"
      [] filename = "/media/v.mp4" -> "ISO Media, MP4 v2"
      [] filename = "/media/notes.txt" -> "ASCII text"
      [] OTHER -> "Zip archive data"

\* The audio tracks MediaInfo.parse finds, as track.to_data() gives them:
\* with track ids, without, some with and some without, and none at all (a
\* video without sound).
MediaInfoAudioTracks(filename) ==
    CASE filename = "/media/a.mp3" ->
             <<[track_id |-> 0, format |-> "MPEG Audio"],
               [track_id |-> 2, format |-> "MPEG Audio"]>>
      [] filename = "/media/c.ogg" ->
             <<[format |-> "Vorbis"], [format |-> "Opus"]>>
      [] filename = "/media/m.mkv" ->
             <<[track_id |-> 1, format |-> "AAC"], [format |-> "AC-3"]>>
      [] OTHER -> <<>>

\* libarchive.file_reader recognises the file as an archive.
IsArchiveFile(filename) ==
    filename \in {"/media/b.zip", "/media/e.zip", "/media/f.zip"}

\* The entries of an archive, in the archive's order; `read` is how reading
\* the entry's first block ends: "ok", an ArchiveError about encryption
\* ("encrypted"), or any other ArchiveError ("error").
Entry(pathname, isreg, read) ==
    [pathname |-> pathname, isreg |-> isreg, read |-> read]

ArchiveEntriesOf(filename) ==
    CASE filename = "/media/b.zip" -> <<Entry("clip.wav", TRUE, "ok")>>
      [] filename = "/media/e.zip" ->
             <<Entry("docs", FALSE, "ok"), Entry("readme.txt", TRUE, "ok"),
               Entry("secret.wav", TRUE, "encrypted"),
               Entry("clip.wav", TRUE, "ok")>>
      [] filename = "/media/f.zip" ->
             <<Entry("clip.wav", TRUE, "ok"), Entry("bad.wav", TRUE, "error"),
               Entry("late.wav", TRUE, "ok")>>

\* guess_type(pathname, strict=False)[0] or ''
GuessType(pathname) ==
    CASE pathname \in {"clip.wav", "secret.wav", "bad.wav", "late.wav"} ->
             <<"audio", "x-wav">>
      [] pathname = "readme.txt" -> <<"text", "plain">>
      [] OTHER -> <<"", "">>

\* mime.startswith('audio/') or mime.startswith('video/')
IsAudioVideo(mime) == mime[1] = "audio" \/ mime[1] = "video"

\* When the inspected path disappears: not at all, before the first call on
\* it, after the MIME type was read, or after the observation was built.
GoneStages == {"no", "before_magic", "before_lstat", "before_open"}

\* Lines 18-27: the observation of a path (size stands for the lstat fields).
Observation(filename) ==
    [path |-> filename, mime |-> MagicMime(filename),
     format |-> MagicFormat(filename), size |-> "st_size"]

RECURSIVE ArchiveLoopNoEncryptionTest(_, _, _)
\* The loop with every ArchiveError of an entry raised again, whatever its
\* message.
ArchiveLoopNoEncryptionTest(observation, entries, emitted) ==
    IF entries = <<>> THEN emitted
    ELSE LET entry == Head(entries)
             updated == DictUpdate(observation,
                            [archive_path |-> entry.pathname,
                             archive_size |-> "entry.size"])
         IN  IF entry.isreg /\ IsAudioVideo(GuessType(entry.pathname))
             THEN IF entry.read /= "ok"
                  THEN emitted
                  ELSE ArchiveLoopNoEncryptionTest(updated, Tail(entries),
                                                   Append(emitted, updated))
             ELSE ArchiveLoopNoEncryptionTest(observation, Tail(entries), emitted)

RECURSIVE ArchiveLoopSkipsFailedEntry(_, _, _)
\* The loop with a failed entry passed over and the later entries scanned.
ArchiveLoopSkipsFailedEntry(observation, entries, emitted) ==
    IF entries = <<>> THEN emitted
    ELSE LET entry == Head(entries)
             copy == IF entry.read = "encrypted"
                     THEN DictSet(observation, "encrypted", TRUE)
                     ELSE observation
             updated == DictUpdate(copy,
                            [archive_path |-> entry.pathname,
                             archive_size |-> "entry.size"])
         IN  IF /\ entry.isreg
                /\ IsAudioVideo(GuessType(entry.pathname))
                /\ entry.read /= "error"
             THEN ArchiveLoopSkipsFailedEntry(updated, Tail(entries),
                                              Append(emitted, updated))
             ELSE ArchiveLoopSkipsFailedEntry(observation, Tail(entries), emitted)

RECURSIVE ArchiveLoop(_, _, _)
\* Lines 38-60: the loop over the entries.  `observation` is the loop's
\* variable of that name: it is rebound to each emitted copy.  An
\* ArchiveError other than an encryption one is raised again and leaves the
\* loop.
ArchiveLoop(observation, entries, emitted) ==
    IF entries = <<>> THEN emitted
    ELSE LET entry == Head(entries)
             copy == IF entry.read = "encrypted"
                     THEN DictSet(observation, "encrypted", TRUE)
                     ELSE observation
             updated == DictUpdate(copy,
                            [archive_path |-> entry.pathname,
                             archive_size |-> "entry.size"])
         IN  IF entry.isreg /\ IsAudioVideo(GuessType(entry.pathname))
             THEN IF entry.read = "error"
                  THEN emitted
                  ELSE ArchiveLoop(updated, Tail(entries), Append(emitted, updated))
             ELSE ArchiveLoop(observation, Tail(entries), emitted)

\* The archive scan without the handler of lines 62-63.
ScanArchiveUncaught(filename, gone) ==
    IF gone = "before_open" \/ ~IsArchiveFile(filename)
    THEN [emitted |-> <<>>, outcome |-> "died"]
    ELSE [emitted |-> ArchiveLoop(Observation(filename),
                                  ArchiveEntriesOf(filename), <<>>),
          outcome |-> "next"]

\* Lines 36-63: the archive scan.  libarchive raises ArchiveError for a file
\* it cannot open or does not recognise, and for a failed entry; the handler
\* at lines 62-63 turns each into `continue`.
ScanArchive(filename, gone) ==
    IF gone = "before_open" \/ ~IsArchiveFile(filename)
    THEN [emitted |-> <<>>, outcome |-> "next"]
    ELSE [emitted |-> ArchiveLoop(Observation(filename),
                                  ArchiveEntriesOf(filename), <<>>),
          outcome |-> "next"]

\* The body of peek_worker's loop for one path: what it puts on the output
\* queue, and whether the loop goes on ("next") or an exception ends the
\* process ("died").  magic.from_file, lstat and MediaInfo.parse raise for
\* a path that is gone, and nothing catches that.
Inspect(filename, gone) ==
    IF gone \in {"before_magic", "before_lstat"}
    THEN [emitted |-> <<>>, outcome |-> "died"]
    ELSE IF IsAudioVideo(MagicMime(filename))
    THEN IF gone = "before_open"
         THEN [emitted |-> <<>>, outcome |-> "died"]
         ELSE [emitted |-> <<DictSet(Observation(filename), "audio_tracks",
                                     MediaInfoAudioTracks(filename))>>,
               outcome |-> "next"]
    ELSE ScanArchive(filename, gone)

----------------------------------------------------------------------------
(* Discovery, the consumer side: populate_filelist (selection.py:288-319)  *)
(* and the teardown of monitor_directory (monitor.py:107-114).             *)

\* The key of an observation: its path, and for an archive member the
\* member's path appended after a slash.
ObservationKey(entry) ==
    IF "archive_path" \in DOMAIN entry
    THEN entry.path \o "/" \o entry.archive_path
    ELSE entry.path

\* file_entry.get("audio_tracks", [{}])
AudioTracksOf(entry) ==
    IF "audio_tracks" \in DOMAIN entry THEN entry.audio_tracks ELSE <<EmptyDict>>

\* d.pop(k, None), as far as d goes
DictPop(d, k) == [f \in DOMAIN d \ {k} |-> d[f]]

\* The index taken from the position alone, whatever the track carries.
TrackIndexByPosition(track, i) == i

\* The index of the track at position i (counted from 0) of the list.
TrackIndex(track, i) ==
    IF "track_id" \in DOMAIN track THEN track.track_id ELSE i

\* "{}/{}".format(key, i)
TrackKey(key, i) == key \o "/" \o ToString(i)

RECURSIVE TrackLoop(_, _, _, _, _)
\* Lines 311-319: one on_track_added call per track, until one raises.
\* `n` tracks have been handled; the result is the state and the keys used.
TrackLoop(s, entry, tracks, n, keys) ==
    IF n = Len(tracks) \/ s.raised THEN [s |-> s, keys |-> keys]
    ELSE LET track == tracks[n + 1]
             key == TrackKey(ObservationKey(entry), TrackIndex(track, n))
             audio_entry == DictSet(DictPop(entry, "audio_tracks"),
                                    "audio_track", track)
         IN  TrackLoop(OnTrackAdded(s, key, audio_entry), entry, tracks,
                       n + 1, Append(keys, key))

\* The body of populate_filelist's loop for one observation.
PopulateFilelist(s, entry) == TrackLoop(s, entry, AudioTracksOf(entry), 0, <<>>)

\* How the worker process answers the teardown: it takes the sentinel before
\* the signal arrives (it was idle), it ends on SIGTERM within the join's
\* four seconds, or it does not (it is held in a read of a queued path).
TeardownOutcomes == {"sentinel", "sigterm", "unresponsive"}

\* The finally block of monitor_directory, lines 108-114, in the order of
\* its statements; `kill` is called when the join timed out (exitcode None).
TeardownSteps(process, outcome) ==
    <<"put_sentinel", "observer_stop", "terminate", "join_worker">>
    \o (IF process = "alive" /\ outcome = "unresponsive" THEN <<"kill">> ELSE <<>>)
    \o <<"join_observer">>

\* The worker process after the teardown.
TeardownProcess(process, outcome) ==
    IF process # "alive" THEN process
    ELSE CASE outcome = "sentinel" -> "exited"
           [] outcome = "sigterm" -> "terminated"
           [] outcome = "unresponsive" -> "kill_sent"

\* The finally block as a step of the generator, which is closed after it.
Teardown(outcome) ==
    /\ outcome = "sentinel" => peek_queue = <<>>
    /\ outcome = "unresponsive" => peek_queue /= <<>>
    /\ peek_queue' = IF peek_process = "alive" /\ outcome = "sentinel"
                     THEN peek_queue ELSE Append(peek_queue, None)
    /\ mount_observer' = "stopped"
    /\ peek_process' = TeardownProcess(peek_process, outcome)
    /\ teardown' = TeardownSteps(peek_process, outcome)
    /\ gen' = "closed"

\* The condition of monitor_directory's while loop, lines 98-100.
LoopCondition ==
    mount_observer = "alive" /\ peek_process = "alive" /\ ~is_cancelled

----------------------------------------------------------------------------
(* The actions. *)

\* The track registry and the pipeline after construction.
InitUI ==
    /\ audio_tracks = EmptyDict
    /\ rows = <<>>
    /\ cells = EmptyDict
    /\ tasks = EmptyDict
    /\ defaults = AppDefaults
    /\ start_display = TRUE
    /\ pc = "idle"
    /\ ordered_rows = <<>>
    /\ idx = 0
    /\ task = EmptyDict
    /\ exited = FALSE
    /\ log = [k \in TrackKeys |-> <<>>]
    /\ seen = [k \in TrackKeys |-> "UNSEEN"]

\* The watcher before MountsDirectoryHandler is constructed, over an empty
\* directory tree.
InitWatcher ==
    /\ fs = [p \in FilePaths |-> 0]
    /\ previous_snapshot = EmptyDirectorySnapshot
    /\ pending = FALSE
    /\ put_count = <<>>

\* monitor_directory at its first line 98: both queues empty, the worker
\* process and the observer started.
InitDiscovery ==
    /\ tui_queue = <<>>
    /\ peek_process = "alive"
    /\ mount_observer = "alive"
    /\ is_cancelled = FALSE
    /\ gen = "check"
    /\ file_entry = EmptyDict
    /\ teardown = <<>>
    /\ peek_log = <<>>
    /\ handled = [entry |-> EmptyDict, keys |-> <<>>]
    /\ polls = 0

Init == InitUI /\ InitWatcher /\ peek_queue = <<>> /\ InitDiscovery

\* populate_filelist hands a discovered track to on_track_added.  Track keys
\* are opaque, so the n-th new key is named n; a key that has a row already
\* can be handed over again.
TrackAdded ==
    \E key \in TrackKeys, entry \in Entries :
        /\ ~exited
        /\ key <= Len(rows) + 1
        /\ Install(OnTrackAdded(Current, key, entry))
        /\ UNCHANGED <<start_display, wvars, peek_queue, dvars>>

\* A row is selected, the options screen is answered with one of its three
\* buttons, and check_options receives the result.
RowSelected ==
    \E i \in 1..Len(rows), button \in {"apply", "reset", "set_defaults"},
       options \in OptionValues :
        /\ ~exited
        /\ Install(CheckOptions(Current, RowKey(rows[i]),
                                OptionsResult(rows[i], button, options)))
        /\ UNCHANGED <<start_display, wvars, peek_queue, dvars>>

\* on_button_pressed: the Start button starts process_queue and is hidden.
StartPressed ==
    /\ ~exited
    /\ start_display
    /\ start_display' = FALSE
    /\ pc' = "begin"
    /\ UNCHANGED <<audio_tracks, rows, cells, tasks, defaults, ordered_rows,
                   idx, task, exited, log, seen, wvars, peek_queue, dvars>>

\* The event loop resumes process_queue; `ret` is the exit code of the
\* command it was waiting for.
ProcessQueue ==
    \E ret \in ExitCodes :
        /\ ~exited
        /\ pc \in Suspended
        /\ Install(Resume(Current, ret))
        /\ UNCHANGED <<start_display, wvars, peek_queue, dvars>>

Next == TrackAdded \/ RowSelected \/ StartPressed \/ ProcessQueue

Spec == Init /\ [][Next]_vars

----------------------------------------------------------------------------
(* The watcher: the file system changes under it, and on_any_event runs    *)
(* for the events the observer delivers.  The observer is scheduled with   *)
(* recursive=False (monitor.py:92), so only a change to an entry of the    *)
(* watched directory itself raises an event.                               *)

\* The directory trees the handler can be constructed over: any of the
\* files present, the inodes in use numbered from 1.
InitialFileSystems ==
    {f \in [FilePaths -> 0..Cardinality(FilePaths)] :
        /\ \A p, q \in FilePaths : f[p] = f[q] /\ f[p] # 0 => p = q
        /\ \A p \in FilePaths :
               f[p] <= Cardinality({q \in FilePaths : f[q] # 0})}

WatcherInit ==
    /\ InitUI
    /\ fs \in InitialFileSystems
    /\ previous_snapshot = EmptyDirectorySnapshot
    /\ pending = FALSE
    /\ put_count = [i \in 1..Cardinality({p \in FilePaths : fs[p] # 0}) |-> 0]
    /\ peek_queue = <<>>
    /\ tui_queue = <<>>
    /\ peek_process = "alive"
    /\ mount_observer = "new"
    /\ is_cancelled = FALSE
    /\ gen = "check"
    /\ file_entry = EmptyDict
    /\ teardown = <<>>
    /\ peek_log = <<>>
    /\ handled = [entry |-> EmptyDict, keys |-> <<>>]
    /\ polls = 0

\* Whether a change at path p is reported to the handler.
Notifies(p) == Parent(p) = WatchedDir

\* MountsDirectoryHandler.__init__ (which ends with queue_new_files) and the
\* start of the observer, monitor.py:90-95.
HandlerInit ==
    /\ mount_observer = "new"
    /\ \E order \in PathOrders : QueueNewFiles(order)
    /\ mount_observer' = "alive"
    /\ UNCHANGED <<uvars, fs, pending, tui_queue, peek_process, is_cancelled,
                   gen, file_entry, teardown, peek_log, handled, polls>>

\* A new file appears at a free path.
CreateFile ==
    \E p \in FilePaths :
        /\ mount_observer = "alive"
        /\ fs[p] = 0
        /\ Len(put_count) < MaxInodes
        /\ fs' = [fs EXCEPT ![p] = Len(put_count) + 1]
        /\ put_count' = Append(put_count, 0)
        /\ pending' = (pending \/ Notifies(p))
        /\ UNCHANGED <<uvars, previous_snapshot, peek_queue, dvars>>

\* A file is removed.
DeleteFile ==
    \E p \in FilePaths :
        /\ mount_observer = "alive"
        /\ fs[p] # 0
        /\ fs' = [fs EXCEPT ![p] = 0]
        /\ pending' = (pending \/ Notifies(p))
        /\ UNCHANGED <<uvars, previous_snapshot, put_count, peek_queue, dvars>>

\* A file's content is changed in place.
ModifyFile ==
    \E p \in FilePaths :
        /\ mount_observer = "alive"
        /\ fs[p] # 0
        /\ Notifies(p)
        /\ pending' = TRUE
        /\ UNCHANGED <<uvars, fs, previous_snapshot, put_count, peek_queue, dvars>>

\* A file is moved to a free path.
RenameFile ==
    \E p, q \in FilePaths :
        /\ mount_observer = "alive"
        /\ fs[p] # 0
        /\ fs[q] = 0
        /\ fs' = [fs EXCEPT ![q] = fs[p], ![p] = 0]
        /\ pending' = (pending \/ Notifies(p) \/ Notifies(q))
        /\ UNCHANGED <<uvars, previous_snapshot, put_count, peek_queue, dvars>>

\* on_any_event: every event runs queue_new_files.
OnAnyEvent ==
    /\ mount_observer = "alive"
    /\ pending
    /\ pending' = FALSE
    /\ \E order \in PathOrders : QueueNewFiles(order)
    /\ UNCHANGED <<uvars, fs, dvars>>

WatcherNext ==
    \/ HandlerInit
    \/ CreateFile
    \/ DeleteFile
    \/ ModifyFile
    \/ RenameFile
    \/ OnAnyEvent

WatcherSpec == WatcherInit /\ [][WatcherNext]_vars

----------------------------------------------------------------------------
(* The inspection worker, the monitor_directory generator and              *)
(* populate_filelist.  The worker is a process and the consumer a thread:  *)
(* their steps interleave freely.  The generator runs in the consumer's    *)
(* thread: it stands before the loop's condition ("check"), in             *)
(* tui_queue.get ("get"), at the yield ("yield"), or it is closed.         *)

\* The handler puts a created file on the worker's queue (monitor.py:82-83).
Enqueue ==
    \E filename \in MediaPaths :
        /\ mount_observer = "alive"
        /\ Len(peek_log) + Len(peek_queue) < MaxQueued
        /\ peek_queue' = Append(peek_queue, filename)
        /\ UNCHANGED <<uvars, wvars, dvars>>

\* peek_worker takes the next path: the sentinel ends it, any other path
\* is inspected.
PeekWorker ==
    \E gone \in GoneStages :
        /\ peek_process = "alive"
        /\ peek_queue # <<>>
        /\ peek_queue' = Tail(peek_queue)
        /\ IF Head(peek_queue) = None
           THEN /\ peek_process' = "exited"
                /\ UNCHANGED <<tui_queue, peek_log>>
           ELSE LET r == Inspect(Head(peek_queue), gone)
                IN  /\ tui_queue' = tui_queue \o r.emitted
                    /\ peek_process' =
                           IF r.outcome = "died" THEN "died" ELSE "alive"
                    /\ peek_log' = Append(peek_log,
                           [path |-> Head(peek_queue), gone |-> gone,
                            emitted |-> r.emitted, outcome |-> r.outcome])
        /\ UNCHANGED <<uvars, wvars, mount_observer, is_cancelled, gen,
                       file_entry, teardown, handled, polls>>

\* The observer thread ends on its own.
ObserverDies ==
    /\ mount_observer = "alive"
    /\ mount_observer' = "dead"
    /\ UNCHANGED <<uvars, wvars, peek_queue, tui_queue, peek_process,
                   is_cancelled, gen, file_entry, teardown, peek_log, handled,
                   polls>>

\* populate_filelist's worker is cancelled: process_queue is started in the
\* same exclusive group, or the application shuts down.
Cancel ==
    /\ ~exited
    /\ ~is_cancelled
    /\ gen # "closed"
    /\ is_cancelled' = TRUE
    /\ UNCHANGED <<uvars, wvars, peek_queue, tui_queue, peek_process,
                   mount_observer, gen, file_entry, teardown, peek_log,
                   handled, polls>>

\* Lines 98-100: the loop goes into tui_queue.get, or ends and the finally
\* block runs.
GenCheck ==
    /\ gen = "check"
    /\ IF LoopCondition
       THEN /\ gen' = "get"
            /\ UNCHANGED <<peek_queue, mount_observer, peek_process, teardown>>
       ELSE \E outcome \in TeardownOutcomes : Teardown(outcome)
    /\ UNCHANGED <<uvars, wvars, tui_queue, is_cancelled, file_entry, peek_log,
                   handled, polls>>

\* Lines 101-104: tui_queue.get(timeout=1) returns an observation, which is
\* yielded, or raises Empty after the second.
GenGet ==
    /\ gen = "get"
    /\ IF tui_queue # <<>>
       THEN /\ file_entry' = Head(tui_queue)
            /\ tui_queue' = Tail(tui_queue)
            /\ gen' = "yield"
       ELSE /\ gen' = "check"
            /\ UNCHANGED <<file_entry, tui_queue>>
    /\ polls' = IF LoopCondition THEN polls ELSE polls + 1
    /\ UNCHANGED <<uvars, wvars, peek_queue, peek_process, mount_observer,
                   is_cancelled, teardown, peek_log, handled>>

\* populate_filelist's loop body for the yielded observation: a cancelled
\* worker closes the generator (GeneratorExit at the yield, then the finally
\* block); otherwise every track is handed to on_track_added and the
\* generator is resumed.  An exception of on_track_added ends the thread,
\* and with it the generator.
Consume ==
    /\ gen = "yield"
    /\ IF is_cancelled
       THEN /\ \E outcome \in TeardownOutcomes : Teardown(outcome)
            /\ UNCHANGED <<uvars, handled>>
       ELSE LET r == PopulateFilelist(Current, file_entry)
            IN  /\ Install(r.s)
                /\ handled' = [entry |-> file_entry, keys |-> r.keys]
                /\ UNCHANGED start_display
                /\ IF r.s.raised
                   THEN \E outcome \in TeardownOutcomes : Teardown(outcome)
                   ELSE /\ gen' = "check"
                        /\ UNCHANGED <<peek_queue, mount_observer,
                                       peek_process, teardown>>
    /\ UNCHANGED <<wvars, tui_queue, is_cancelled, file_entry, peek_log, polls>>

DiscoveryNext ==
    \/ Enqueue
    \/ PeekWorker
    \/ ObserverDies
    \/ Cancel
    \/ GenCheck
    \/ GenGet
    \/ Consume

DiscoverySpec == Init /\ [][DiscoveryNext]_vars

----------------------------------------------------------------------------
(* Vocabulary of the properties. *)

\* The status stored in a track's task, "ABSENT" when there is none.
StoredStatus(k) ==
    IF k \in DOMAIN tasks /\ "status" \in DOMAIN tasks[k]
    THEN tasks[k].status ELSE "ABSENT"

\* The statuses process_queue has set for a track, in order.
RECURSIVE StatusesOf(_)
StatusesOf(l) ==
    IF l = <<>> THEN <<>>
    ELSE (IF Head(l).op = "set_row_status" THEN <<Head(l).arg>> ELSE <<>>)
         \o StatusesOf(Tail(l))

\* The number of run_proc calls in a log.
ProcCalls(l) == Cardinality({j \in 1..Len(l) : l[j].op = "run_proc"})

Registered(k) == k \in DOMAIN audio_tracks

IsEncrypted(k) ==
    Registered(k) /\ "encrypted" \in DOMAIN audio_tracks[k]
                  /\ audio_tracks[k].encrypted

IsArchive(k) == Registered(k) /\ "archive_path" \in DOMAIN audio_tracks[k]

ActiveStatuses == {"UNPACKING", "LOADING", "TRANSCRIBING", "RETURNING"}

TerminalStatuses == {"FAILED", "COMPLETED"}

\* The worker has visited row k and found it WAITING.
VisitedWaiting(k) == seen[k] = "WAITING"

\* The track's resolved task, as get_row_task returns it now.
Resolved(k) == GetRowTask(Current, StrKey(k)).val

EmptyModels(t) == "models" \in DOMAIN t /\ t.models = <<>>

----------------------------------------------------------------------------
(* What the exception of update_rows means for process_queue: the worker   *)
(* never stands at one of its awaits and never makes a run_proc call, and  *)
(* it ends normally only when the table had no row.                        *)
StagesUnreachable ==
    /\ pc \notin {"unpack", "transcode", "transcribe", "copy"}
    /\ \A k \in TrackKeys : ProcCalls(log[k]) = 0
    /\ pc = "done" => ordered_rows = <<>>

----------------------------------------------------------------------------
(* C1: an encrypted track that process_queue finds WAITING goes straight   *)
(* from WAITING to FAILED: FAILED is the only status ever set for it, and  *)
(* no external command is run for it.                                      *)
C1_EncryptedFailsDirectly ==
    \A k \in TrackKeys :
        IsEncrypted(k) =>
            /\ ProcCalls(log[k]) = 0
            /\ VisitedWaiting(k) =>
                   /\ StatusesOf(log[k]) = <<"FAILED">>
                   /\ StoredStatus(k) = "FAILED"
            /\ ~VisitedWaiting(k) => log[k] = <<>>

C1_Witness ==
    \E k \in TrackKeys :
        IsEncrypted(k) /\ VisitedWaiting(k) /\ StoredStatus(k) = "FAILED"

(* C3: a task whose resolved model set is empty is never run: process_queue *)
(* sets no status on it and runs no command for it.  (The code's own        *)
(* status read in process_queue does not apply the SKIPPED substitution.)   *)
C3_EmptyModelsNeverRun ==
    \A k \in TrackKeys :
        ( /\ idx \in 1..Len(ordered_rows)
          /\ ordered_rows[idx] = k
          /\ VisitedWaiting(k)
          /\ EmptyModels(task) )
        => log[k] = <<>>

StatusChain(k) ==
    IF IsArchive(k)
    THEN <<"WAITING", "UNPACKING", "LOADING", "TRANSCRIBING", "RETURNING",
           "COMPLETED">>
    ELSE <<"WAITING", "LOADING", "TRANSCRIBING", "RETURNING", "COMPLETED">>

StatusesTaken(k) == <<"WAITING">> \o StatusesOf(log[k])

C5_StatusSequence ==
    \A k \in TrackKeys :
        /\ \E n \in 1..Len(StatusChain(k)) :
               \/ StatusesTaken(k) = SubSeq(StatusChain(k), 1, n)
               \/ StatusesTaken(k) = SubSeq(StatusChain(k), 1, n) \o <<"FAILED">>
        /\ StoredStatus(k) \notin {"DIARIZING", "ENCRYPTING"}
        /\ StoredStatus(k) # "ABSENT" =>
               StoredStatus(k) = StatusesTaken(k)[Len(StatusesTaken(k))]

C5_Witness ==
    \E k \in TrackKeys :
        /\ IsArchive(k)
        /\ StatusesTaken(k) = <<"WAITING", "UNPACKING">>
        /\ StoredStatus(k) = "UNPACKING"

(* C6: FAILED and COMPLETED are terminal for the pipeline: in a task's log  *)
(* nothing follows a set_row_status of FAILED or COMPLETED, neither another *)
(* status nor a command, and a stored FAILED or COMPLETED is the last       *)
(* thing process_queue did for the task.                                    *)
C6_TerminalIsFinal ==
    \A k \in TrackKeys :
        /\ \A j \in 1..Len(log[k]) :
               ( /\ log[k][j].op = "set_row_status"
                 /\ log[k][j].arg \in TerminalStatuses )
               => j = Len(log[k])
        /\ StoredStatus(k) \in TerminalStatuses =>
               /\ log[k] # <<>>
               /\ log[k][Len(log[k])] = StatusCall(StoredStatus(k))

C6_Witness == \E k \in TrackKeys : StoredStatus(k) = "FAILED"

(* C7: at most one track has an active status (UNPACKING, LOADING,          *)
(* TRANSCRIBING or RETURNING) at any time.                                  *)
C7_AtMostOneActive ==
    Cardinality({k \in TrackKeys : StoredStatus(k) \in ActiveStatuses}) <= 1

C7_Witness ==
    /\ Len(ordered_rows) >= 2
    /\ \E k \in TrackKeys : StoredStatus(k) \in ActiveStatuses

(* C8: once process_queue has ended, every track that was WAITING when it   *)
(* started has reached FAILED or COMPLETED.                                 *)
C8_EveryWaitingTrackFinishes ==
    pc \in {"done", "crashed"} =>
        \A i \in 1..Len(ordered_rows) :
            StoredStatus(ordered_rows[i]) \in TerminalStatuses

(* C10: the resolved task of a track is the defaults overridden field by    *)
(* field by the track's stored task; a field the track does not set takes   *)
(* the current default; asking again gives the same map; and the query      *)
(* changes neither the defaults (which stay what the application or the     *)
(* last "set as defaults" put there) nor the stored tasks.                  *)
C10_ResolvedTask ==
    /\ defaults \in {AppDefaults} \cup OptionValues
    /\ \A k \in TrackKeys :
           LET q == GetRowTask(Current, StrKey(k))
               own == DictGet(tasks, k)
           IN  /\ DOMAIN q.val = DOMAIN defaults \cup DOMAIN own
               /\ \A f \in DOMAIN q.val :
                      q.val[f] = IF f \in DOMAIN own THEN own[f] ELSE defaults[f]
               /\ q.s.defaults = defaults
               /\ q.s.tasks = tasks
               /\ GetRowTask(q.s, StrKey(k)).val = q.val

C10_Witness ==
    \E k \in TrackKeys :
        /\ k \in DOMAIN tasks
        /\ defaults # AppDefaults
        /\ DOMAIN defaults \ DOMAIN tasks[k] # {}
        /\ "models" \in DOMAIN defaults \cap DOMAIN tasks[k]
        /\ defaults.models # tasks[k].models
        /\ Resolved(k).models = tasks[k].models

----------------------------------------------------------------------------
(* Vocabulary of the discovery properties. *)

\* The observation populate_filelist handled last, and its track list.
Handled == handled.entry /= EmptyDict

HandledTracks ==
    IF "audio_tracks" \in DOMAIN handled.entry
    THEN handled.entry.audio_tracks ELSE <<EmptyDict>>

\* The key the j-th track of the handled observation is to be registered
\* under: the observation key, a slash, and the track's id or else its
\* position counted from 0.
ExpectedKey(j) ==
    LET entry == handled.entry
        observation_key == IF "archive_path" \in DOMAIN entry
                           THEN entry.path \o "/" \o entry.archive_path
                           ELSE entry.path
        track == HandledTracks[j]
    IN  observation_key \o "/" \o
            (IF "track_id" \in DOMAIN track
             THEN ToString(track.track_id) ELSE ToString(j - 1))

(* C11: every track of an observation populate_filelist has handled is     *)
(* registered under observation_key/index: the keys on_track_added was     *)
(* called with are these keys in the order of the track list, and the      *)
(* registry holds under each of these keys a track of the observation that *)
(* has this key (whether it is the only one is C24); tracks 0 and 2 of     *)
(* /media/a.mp3 are /media/a.mp3/0 and /media/a.mp3/2, and entry clip.wav  *)
(* of /media/b.zip is /media/b.zip/clip.wav/0.                             *)
C11_KeyConstruction ==
    Handled =>
        /\ \A j \in 1..Len(handled.keys) : handled.keys[j] = ExpectedKey(j)
        /\ ~exited => Len(handled.keys) = Len(HandledTracks)
        /\ \A j \in 1..Len(HandledTracks) :
               /\ ExpectedKey(j) \in DOMAIN audio_tracks
               /\ \E l \in 1..Len(HandledTracks) :
                      /\ ExpectedKey(l) = ExpectedKey(j)
                      /\ audio_tracks[ExpectedKey(j)].audio_track =
                             HandledTracks[l]
               /\ audio_tracks[ExpectedKey(j)].path = handled.entry.path
        /\ handled.entry.path = "/media/a.mp3" =>
               \A j \in 1..Len(handled.keys) :
                   handled.keys[j] = <<"/media/a.mp3/0", "/media/a.mp3/2">>[j]
        /\ ( /\ handled.entry.path = "/media/b.zip"
             /\ handled.entry.archive_path = "clip.wav" ) =>
               handled.keys = <<"/media/b.zip/clip.wav/0">>

C11_Witness ==
    /\ Handled
    /\ handled.keys = <<"/media/a.mp3/0", "/media/a.mp3/2">>
    /\ "/media/b.zip/clip.wav/0" \in DOMAIN audio_tracks
    /\ "/media/a.mp3/2" \in DOMAIN audio_tracks

(* C12: every observation populate_filelist has handled gave at least one  *)
(* registered (key, track) pair; an audio/video file whose audio track     *)
(* list is empty is registered under index 0 with an empty track-info      *)
(* object.  (The code's default [{}] applies only when the observation has *)
(* no audio_tracks field at all.)                                          *)
C12_EveryObservationRegistered ==
    Handled =>
        /\ Len(handled.keys) >= 1
        /\ ( /\ "audio_tracks" \in DOMAIN handled.entry
             /\ handled.entry.audio_tracks = <<>> ) =>
               /\ handled.entry.path \o "/0" \in DOMAIN audio_tracks
               /\ audio_tracks[handled.entry.path \o "/0"].audio_track = EmptyDict

(* C13: a queued path that disappears before or during its inspection is   *)
(* skipped and the worker stays alive: the inspection emits nothing, the   *)
(* loop goes on, and the worker process has not died of an exception.      *)
C13_VanishedPathSkipped ==
    /\ peek_process /= "died"
    /\ \A j \in 1..Len(peek_log) :
           peek_log[j].gone /= "no" =>
               /\ peek_log[j].emitted = <<>>
               /\ peek_log[j].outcome = "next"

\* The inspections of peek_log whose path was there throughout.
Inspected(j) == j \in 1..Len(peek_log) /\ peek_log[j].gone = "no"

\* The archive_path fields of the observations an inspection emitted.
EmittedPaths(j) ==
    {peek_log[j].emitted[n].archive_path : n \in 1..Len(peek_log[j].emitted)}

(* C14: for a queued file whose MIME type starts with neither audio/ nor   *)
(* video/ and which is no valid archive, the worker emits no observation,  *)
(* no exception leaves the inspection (the worker has not died of it), and *)
(* the loop goes on to the next queued path.                               *)
C14_UnsupportedFileIgnored ==
    \A j \in 1..Len(peek_log) :
        ( /\ Inspected(j)
          /\ ~IsAudioVideo(MagicMime(peek_log[j].path))
          /\ ~IsArchiveFile(peek_log[j].path) )
        => /\ peek_log[j].emitted = <<>>
           /\ peek_log[j].outcome = "next"
           /\ j = Len(peek_log) => peek_process /= "died"

C14_Witness ==
    /\ Len(peek_log) = 2
    /\ Inspected(1)
    /\ peek_log[1].path = "/media/notes.txt"
    /\ peek_log[2].path = "/media/a.mp3"
    /\ peek_log[2].emitted /= <<>>

\* Entry e of the archive inspected at j is a regular audio/video entry.
MediaEntry(j, e) ==
    LET entry == ArchiveEntriesOf(peek_log[j].path)[e]
    IN  entry.isreg /\ IsAudioVideo(GuessType(entry.pathname))

\* No media entry before entry e failed with a non-encryption error.
NoFailureBefore(j, e) ==
    \A d \in 1..(e - 1) :
        MediaEntry(j, d) => ArchiveEntriesOf(peek_log[j].path)[d].read /= "error"

(* C15: for every audio/video archive entry whose first-block read fails   *)
(* with an encryption error, the worker emits an observation for that      *)
(* entry with encrypted = TRUE; the entries after it are still scanned     *)
(* (each readable audio/video entry after it is emitted, later in the      *)
(* queue), and the loop goes on to the next queued path.                   *)
C15_EncryptedEntryEmitted ==
    \A j \in 1..Len(peek_log) :
        (Inspected(j) /\ IsArchiveFile(peek_log[j].path)) =>
            LET entries == ArchiveEntriesOf(peek_log[j].path)
                emitted == peek_log[j].emitted
            IN  \A e \in 1..Len(entries) :
                    ( /\ MediaEntry(j, e)
                      /\ entries[e].read = "encrypted"
                      /\ NoFailureBefore(j, e) )
                    => /\ peek_log[j].outcome = "next"
                       /\ \E n \in 1..Len(emitted) :
                              /\ emitted[n].archive_path = entries[e].pathname
                              /\ "encrypted" \in DOMAIN emitted[n]
                              /\ emitted[n].encrypted = TRUE
                              /\ \A l \in (e + 1)..Len(entries) :
                                     ( /\ MediaEntry(j, l)
                                       /\ entries[l].read = "ok"
                                       /\ NoFailureBefore(j, l) )
                                     => \E m \in (n + 1)..Len(emitted) :
                                            emitted[m].archive_path =
                                                entries[l].pathname

C15_Witness ==
    /\ Len(peek_log) = 2
    /\ Inspected(1)
    /\ peek_log[1].path = "/media/e.zip"
    /\ EmittedPaths(1) = {"secret.wav", "clip.wav"}
    /\ peek_log[2].path = "/media/b.zip"
    /\ peek_log[2].emitted /= <<>>

(* C20: when reading an audio/video archive entry fails with an archive    *)
(* error that is not about encryption, no observation is emitted for that  *)
(* entry or for any later entry of the archive, the entries emitted before *)
(* it stay emitted, the worker's loop goes on (the worker has not died of  *)
(* it), and the paths queued after the archive are inspected.              *)
C20_FailedEntryAbortsArchiveOnly ==
    \A j \in 1..Len(peek_log) :
        (Inspected(j) /\ IsArchiveFile(peek_log[j].path)) =>
            LET entries == ArchiveEntriesOf(peek_log[j].path)
            IN  \A e \in 1..Len(entries) :
                    ( /\ MediaEntry(j, e)
                      /\ entries[e].read = "error" )
                    => /\ \A l \in e..Len(entries) :
                              entries[l].pathname \notin EmittedPaths(j)
                       /\ \A d \in 1..(e - 1) :
                              MediaEntry(j, d) =>
                                  entries[d].pathname \in EmittedPaths(j)
                       /\ peek_log[j].outcome = "next"
                       /\ j = Len(peek_log) => peek_process /= "died"

C20_Witness ==
    /\ Len(peek_log) = 2
    /\ Inspected(1)
    /\ peek_log[1].path = "/media/f.zip"
    /\ EmittedPaths(1) = {"clip.wav"}
    /\ peek_log[2].path = "/media/b.zip"
    /\ peek_log[2].emitted /= <<>>

\* The inodes a snapshot holds.
InodesOf(snapshot) == {snapshot[p] : p \in DOMAIN snapshot}

\* The paths a step has appended to peek_queue.
NewlyQueued ==
    {peek_queue'[n] : n \in (Len(peek_queue) + 1)..Len(peek_queue')}

(* C16: the watcher is append-only.  In every step the paths enqueued are  *)
(* exactly those of the files present in the new snapshot and absent from  *)
(* the previous one (a file being its inode: a renamed file is the same    *)
(* file), each once; a step that takes no snapshot enqueues nothing.       *)
(* Hence every file of the current snapshot, those present at startup      *)
(* included, has been enqueued exactly once, no file was ever enqueued     *)
(* twice, and the queue holds nothing else.                                *)
C16_AppendOnly ==
    /\ [](/\ \A i \in 1..Len(put_count) : put_count[i] <= 1
          /\ \A p \in DOMAIN previous_snapshot :
                 put_count[previous_snapshot[p]] = 1
          /\ Len(peek_queue) =
                 Cardinality({i \in 1..Len(put_count) : put_count[i] = 1}))
    /\ [][/\ NewlyQueued =
                 {p \in DOMAIN previous_snapshot' :
                     previous_snapshot'[p] \notin InodesOf(previous_snapshot)}
          /\ Len(peek_queue') = Len(peek_queue) + Cardinality(NewlyQueued)
          /\ SubSeq(peek_queue', 1, Len(peek_queue)) = peek_queue]_vars

C16_Witness ==
    /\ mount_observer = "alive"
    /\ ~pending
    /\ Len(peek_queue) = 2
    /\ \E p \in FilePaths :
           /\ fs[p] = 1
           /\ p \in DOMAIN previous_snapshot
           /\ previous_snapshot[p] = 1
           /\ put_count[1] = 1
    /\ \E i \in 1..Len(put_count) :
           /\ put_count[i] = 1
           /\ \A p \in FilePaths : fs[p] /= i
           /\ i \notin InodesOf(previous_snapshot)

(* C19: the watcher is non-recursive: every path on the worker's queue is  *)
(* an immediate entry of the watched directory.  (The snapshot the handler *)
(* takes walks the subdirectories too.)                                    *)
C19_OnlyImmediateEntries ==
    \A n \in 1..Len(peek_queue) : Parent(peek_queue[n]) = WatchedDir

\* The worker process is known to have ended: it returned, died of an
\* exception, or ended on SIGTERM within the join.
WorkerStopped == peek_process \in {"exited", "died", "terminated"}

\* Once the watcher or the worker is dead or cancellation is requested, the
\* generator makes at most one more tui_queue.get call, then its finally
\* block runs.
AtMostOnePollAfterStop == polls <= 1

(* C17: the discovery sequence ends when the watcher dies, the worker dies *)
(* or cancellation is requested: after that the generator polls the        *)
(* observation queue at most once more; and once the generator is closed   *)
(* (the closing call has returned) both the watcher and the worker have    *)
(* stopped.                                                                *)
C17_SequenceEndsAndStops ==
    /\ polls <= 1
    /\ gen = "closed" =>
           /\ ~LoopCondition
           /\ mount_observer = "stopped"
           /\ WorkerStopped

(* C18: the teardown puts the sentinel, stops the watcher, waits for the   *)
(* worker (the bounded join), force-terminates it only after that wait and *)
(* only if it has not exited, and joins both: no terminate or kill comes   *)
(* before the join of the worker.                                          *)
C18_GracefulWaitBeforeForce ==
    teardown /= <<>> =>
        /\ teardown[1] = "put_sentinel"
        /\ teardown[2] = "observer_stop"
        /\ \A a, b \in 1..Len(teardown) :
               ( /\ teardown[a] \in {"terminate", "kill"}
                 /\ teardown[b] = "join_worker" )
               => b < a

(* C21: an observation for an archive entry carries encrypted = TRUE only  *)
(* if the read of that same entry failed with an encryption error: an      *)
(* entry that reads successfully is emitted without the flag, also after   *)
(* an encrypted entry of the same archive.                                 *)
C21_EncryptedOnlyForFailedRead ==
    \A j \in 1..Len(peek_log) :
        IsArchiveFile(peek_log[j].path) =>
            LET entries == ArchiveEntriesOf(peek_log[j].path)
                emitted == peek_log[j].emitted
            IN  \A n \in 1..Len(emitted) :
                    "encrypted" \in DOMAIN emitted[n] =>
                        \E e \in 1..Len(entries) :
                            /\ entries[e].pathname = emitted[n].archive_path
                            /\ entries[e].read = "encrypted"

(* What the exception of update_rows means for the options callback: a     *)
(* task has a stored status only once the application has ended on the     *)
(* worker's exception, so check_options never meets a task with a status.  *)
StatusOnlyAfterExit ==
    \A k \in TrackKeys : StoredStatus(k) /= "ABSENT" => exited

(* C24: track keys are unique per track: the tracks of an observation are  *)
(* registered under pairwise different keys, whatever mix of tracks with   *)
(* and without track_id the list holds, and the registry still holds each  *)
(* of them under its key (no entry was overwritten by another track).      *)
C24_KeysUniquePerTrack ==
    Handled =>
        /\ \A a, b \in 1..Len(handled.keys) :
               a /= b => handled.keys[a] /= handled.keys[b]
        /\ \A j \in 1..Len(handled.keys) :
               audio_tracks[handled.keys[j]].audio_track = HandledTracks[j]

====
